---- MODULE Spec2Model ----
(***************************************************************************)
(* Account factory of the Abstract framework                               *)
(* (framework/contracts/native/account-factory/src/commands.rs).           *)
(*                                                                         *)
(* The factory keeps three storage items (CONFIG, LOCAL_ACCOUNT_SEQUENCE,  *)
(* CONTEXT).  execute_create_account returns three messages which the host *)
(* ledger dispatches in order inside one atomic transaction; the reply of  *)
(* the third one runs validate_instantiated_account.                       *)
(***************************************************************************)
EXTENDS Integers, Sequences, FiniteSets, TLC

----------------------------------------------------------------------------
(* Bounds of the model *)

\* largest amount of one coin in a deposit
MaxAmount == 2
\* largest number of coins listed in a deposit
MaxFundsLen == 2
\* number of accounts confirmed in one behaviour
MaxAccounts == 3
\* number of factory runs that may be suspended at once
MaxDepth == 1

----------------------------------------------------------------------------
(* Option<T>, as the empty or the one-element sequence *)

None == <<>>
Some(v) == <<v>>
is_some(o) == o # <<>>
unwrap(o) == o[1]
unwrap_or(o, d) == IF o = <<>> THEN d ELSE o[1]

----------------------------------------------------------------------------
(* Program constants *)

CREATE_ACCOUNT_MANAGER_MSG_ID == 2
\* ABSTRACT_ACCOUNT_ID.seq(): the reserved sequence of the bootstrap account
ABSTRACT_ACCOUNT_ID_SEQ == 0
\* the largest sequence of an AccountId: u32::MAX in the code, here the largest
\* integer the model checker represents
U32_MAX == 2147483647
PROXY == "abstract:proxy"
MANAGER == "abstract:manager"

\* the address of the factory itself (env.contract.address)
FactoryAddr == "factory"
\* the owner recorded by cw_ownable
Owner == "owner"
Senders == {"owner", "user", "host"}

Denoms == {"ua", "ub"}
\* the order of a BTreeMap over the denominations
DenomOrder == <<"ua", "ub">>

----------------------------------------------------------------------------
(* cosmwasm_std::Coins: a map denom -> amount, a zero amount is an absent   *)
(* entry.  Vec<Coin> is a sequence of [denom, amount].                      *)

Coin(d, a) == [denom |-> d, amount |-> a]
EmptyCoins == [d \in Denoms |-> 0]

RECURSIVE VecAmount(_, _)
\* the total a Vec<Coin> lists for one denomination
VecAmount(vec, d) ==
    IF vec = <<>> THEN 0
    ELSE (IF Head(vec).denom = d THEN Head(vec).amount ELSE 0) + VecAmount(Tail(vec), d)

RECURSIVE CoinsTryFrom(_, _)
\* Coins::try_from(Vec<Coin>): zero coins are skipped, a second non-zero coin
\* of a denomination is the error DuplicateDenom
CoinsTryFrom(vec, acc) ==
    IF vec = <<>> THEN [ok |-> TRUE, coins |-> acc]
    ELSE LET c == Head(vec) IN
         IF c.amount = 0 THEN CoinsTryFrom(Tail(vec), acc)
         ELSE IF acc[c.denom] # 0 THEN [ok |-> FALSE, coins |-> acc]
         ELSE CoinsTryFrom(Tail(vec), [acc EXCEPT ![c.denom] = c.amount])

\* the variant that rejects a subtraction down to zero
CoinsSub_strict(coins, c) ==
    IF coins[c.denom] > c.amount
    THEN [ok |-> TRUE, coins |-> [coins EXCEPT ![c.denom] = @ - c.amount]]
    ELSE [ok |-> FALSE, coins |-> coins]

\* the variant that checks the amount without taking it
CoinsSub_untaken(coins, c) ==
    IF coins[c.denom] >= c.amount
    THEN [ok |-> TRUE, coins |-> coins]
    ELSE [ok |-> FALSE, coins |-> coins]

\* Coins::sub: checked subtraction of one coin
CoinsSub(coins, c) ==
    IF coins[c.denom] >= c.amount
    THEN [ok |-> TRUE, coins |-> [coins EXCEPT ![c.denom] = @ - c.amount]]
    ELSE [ok |-> FALSE, coins |-> coins]

RECURSIVE CoinsSubAll(_, _)
\* the loop `for coin in ... { funds_to_proxy.sub(coin)? }`
CoinsSubAll(coins, vec) ==
    IF vec = <<>> THEN [ok |-> TRUE, coins |-> coins]
    ELSE LET r == CoinsSub(coins, Head(vec)) IN
         IF r.ok THEN CoinsSubAll(r.coins, Tail(vec)) ELSE r

\* Coins::into_vec: the non-zero entries in the order of the denominations
CoinsIntoVec(coins) ==
    LET all == [i \in 1..Len(DenomOrder) |-> Coin(DenomOrder[i], coins[DenomOrder[i]])]
    IN SelectSeq(all, LAMBDA c : c.amount # 0)

----------------------------------------------------------------------------
(* Account identifiers, modules, addresses *)

\* AccountId { seq, trace }; the trace is Local, a well-formed remote path,
\* or a remote path that verify_remote rejects
AccountId(seq, trace) == [seq |-> seq, trace |-> trace]
is_local(account_id) == account_id.trace = "Local"
verify_remote(trace) == trace = "Remote"

\* Module { info, reference }
Module(info, kind, code_id) == [info |-> info, reference |-> [kind |-> kind, code_id |-> code_id]]

\* generate_instantiate_salt(&account_id): a function of the identifier only
generate_instantiate_salt(account_id) == <<"salt", account_id.seq, account_id.trace>>
\* query_wasm_code_info(code_id).checksum
Checksum(code_id) == <<"checksum", code_id>>
\* instantiate2_address(checksum, creator, salt)
instantiate2_address(checksum, creator, salt) == <<"addr", checksum, creator, salt>>

\* the error values of the handlers: a kind and up to two reported values
\* (each an Option)
Err(kind, a, b) == [kind |-> kind, a |-> a, b |-> b]
NoErr == Err("none", None, None)

----------------------------------------------------------------------------
(* generate_new_local_account_id *)

\* the variant that advances the counter at allocation time
generate_new_local_account_id_eager(sequence, sender) ==
    LET next_sequence == unwrap_or(sequence, 0) IN
    IF next_sequence = ABSTRACT_ACCOUNT_ID_SEQ /\ sender # Owner
    THEN [ok |-> FALSE, err |-> Err("NotOwner", Some(sender), None),
          id |-> AccountId(next_sequence, "Local"), sequence |-> sequence]
    ELSE [ok |-> TRUE, err |-> NoErr,
          id |-> AccountId(next_sequence, "Local"), sequence |-> Some(next_sequence + 1)]

\* the variant that lets any caller allocate the reserved sequence
generate_new_local_account_id_open(sequence, sender) ==
    LET next_sequence == unwrap_or(sequence, 0) IN
    [ok |-> TRUE, err |-> NoErr,
     id |-> AccountId(next_sequence, "Local"), sequence |-> sequence]

\* reads the counter (0 if unset); the reserved sequence needs the owner;
\* `sequence` of the result is the stored counter after the call
generate_new_local_account_id(sequence, sender) ==
    LET next_sequence == unwrap_or(sequence, 0) IN
    IF next_sequence = ABSTRACT_ACCOUNT_ID_SEQ /\ sender # Owner
    THEN [ok |-> FALSE, err |-> Err("NotOwner", Some(sender), None),
          id |-> AccountId(next_sequence, "Local"), sequence |-> sequence]
    ELSE [ok |-> TRUE, err |-> NoErr,
          id |-> AccountId(next_sequence, "Local"), sequence |-> sequence]

\* the variant that accepts a supplied local identifier without comparing it
ResolveAccountId_unchecked(config, sequence, sender, account_id) ==
    IF is_some(account_id) /\ is_local(unwrap(account_id)) THEN
        LET g == generate_new_local_account_id(sequence, sender) IN
        IF ~g.ok THEN g ELSE [g EXCEPT !.id = unwrap(account_id)]
    ELSE IF is_some(account_id) THEN
        IF config.ibc_host = None
        THEN [ok |-> FALSE, err |-> Err("IbcHostNotSet", None, None),
              id |-> unwrap(account_id), sequence |-> sequence]
        ELSE IF sender # unwrap(config.ibc_host)
        THEN [ok |-> FALSE, err |-> Err("SenderNotIbcHost", Some(sender), config.ibc_host),
              id |-> unwrap(account_id), sequence |-> sequence]
        ELSE IF ~verify_remote(unwrap(account_id).trace)
        THEN [ok |-> FALSE, err |-> Err("TraceVerify", account_id, None),
              id |-> unwrap(account_id), sequence |-> sequence]
        ELSE [ok |-> TRUE, err |-> NoErr, id |-> unwrap(account_id), sequence |-> sequence]
    ELSE generate_new_local_account_id(sequence, sender)

\* the variant that takes a remote identifier from any caller
ResolveAccountId_anysender(config, sequence, sender, account_id) ==
    IF is_some(account_id) /\ is_local(unwrap(account_id)) THEN
        LET g == generate_new_local_account_id(sequence, sender) IN
        IF ~g.ok THEN g
        ELSE IF g.id # unwrap(account_id)
        THEN [g EXCEPT !.ok = FALSE,
                       !.err = Err("ExpectedAccountIdFailed", account_id, Some(g.id))]
        ELSE g
    ELSE IF is_some(account_id) THEN
        IF config.ibc_host = None
        THEN [ok |-> FALSE, err |-> Err("IbcHostNotSet", None, None),
              id |-> unwrap(account_id), sequence |-> sequence]
        ELSE IF ~verify_remote(unwrap(account_id).trace)
        THEN [ok |-> FALSE, err |-> Err("TraceVerify", account_id, None),
              id |-> unwrap(account_id), sequence |-> sequence]
        ELSE [ok |-> TRUE, err |-> NoErr, id |-> unwrap(account_id), sequence |-> sequence]
    ELSE generate_new_local_account_id(sequence, sender)

\* `let account_id = match account_id { ... }` of execute_create_account
ResolveAccountId(config, sequence, sender, account_id) ==
    IF is_some(account_id) /\ is_local(unwrap(account_id)) THEN
        LET g == generate_new_local_account_id(sequence, sender) IN
        IF ~g.ok THEN g
        ELSE IF g.id # unwrap(account_id)
        THEN [g EXCEPT !.ok = FALSE,
                       !.err = Err("ExpectedAccountIdFailed", account_id, Some(g.id))]
        ELSE g
    ELSE IF is_some(account_id) THEN
        IF config.ibc_host = None
        THEN [ok |-> FALSE, err |-> Err("IbcHostNotSet", None, None),
              id |-> unwrap(account_id), sequence |-> sequence]
        ELSE IF sender # unwrap(config.ibc_host)
        THEN [ok |-> FALSE, err |-> Err("SenderNotIbcHost", Some(sender), config.ibc_host),
              id |-> unwrap(account_id), sequence |-> sequence]
        ELSE IF ~verify_remote(unwrap(account_id).trace)
        THEN [ok |-> FALSE, err |-> Err("TraceVerify", account_id, None),
              id |-> unwrap(account_id), sequence |-> sequence]
        ELSE [ok |-> TRUE, err |-> NoErr, id |-> unwrap(account_id), sequence |-> sequence]
    ELSE generate_new_local_account_id(sequence, sender)

----------------------------------------------------------------------------
(* execute_create_account *)

\* query_module: `modules.swap_remove(0)` of the registry's answer
\* resp = [ok, modules]: the query fails, or answers a list of modules
query_module(resp) ==
    IF ~resp.ok THEN [ok |-> FALSE, err |-> Err("ModuleQuery", None, None), module |-> None]
    ELSE IF resp.modules = <<>> THEN [ok |-> FALSE, err |-> Err("panic", None, None), module |-> None]
    ELSE [ok |-> TRUE, err |-> NoErr, module |-> Some(resp.modules[1])]

\* a message of the response: WasmMsg::Execute or WasmMsg::Instantiate2,
\* with the reply the factory asks for
WasmExecute(contract_addr, funds, msg) ==
    [type |-> "Execute", contract_addr |-> Some(contract_addr), code_id |-> None,
     funds |-> funds, admin |-> None, salt |-> None, msg |-> msg,
     reply_on |-> "never", id |-> 0]
WasmInstantiate2(code_id, funds, admin, msg, salt, reply_on, id) ==
    [type |-> "Instantiate2", contract_addr |-> None, code_id |-> Some(code_id),
     funds |-> funds, admin |-> Some(admin), salt |-> Some(salt), msg |-> msg,
     reply_on |-> reply_on, id |-> id]

\* the result of a failing call: nothing emitted
Failed(step, err, sequence, context) ==
    [ok |-> FALSE, step |-> step, err |-> err, sequence |-> sequence, context |-> context,
     msgs |-> <<>>, account_id |-> None, funds_to_proxy |-> None,
     funds_for_install |-> None, funds_for_namespace_fee |-> None]

\* the variant that emits the controller instantiation before the proxy's
CreateAccountMessages_swapped(register, proxy, manager) == <<register, manager, proxy>>

\* the order of `.add_message(..).add_message(..).add_submessage(..)`
CreateAccountMessages(register, proxy, manager) == <<register, proxy, manager>>

\* the variant that lets any caller create a sub-account
SubAccountCreatorIsManager_any(governance, sender) == TRUE

\* the `if let GovernanceDetails::SubAccount { manager, .. }` check: the
\* creator of a sub-account is the manager named by the governance
SubAccountCreatorIsManager(governance, sender) ==
    governance.type = "SubAccount" => sender = governance.manager

\* the variant that derives both addresses from the proxy's checksum
PredictAccountBase_onechecksum(proxy_code_id, manager_code_id, salt) ==
    [manager |-> instantiate2_address(Checksum(proxy_code_id), FactoryAddr, salt),
     proxy |-> instantiate2_address(Checksum(proxy_code_id), FactoryAddr, salt)]

\* AccountBase of the two instantiate2_address results
PredictAccountBase(proxy_code_id, manager_code_id, salt) ==
    [manager |-> instantiate2_address(Checksum(manager_code_id), FactoryAddr, salt),
     proxy |-> instantiate2_address(Checksum(proxy_code_id), FactoryAddr, salt)]

\* args = [governance, namespace, account_id, funds]; q: what the queried
\* collaborators answer during this call
execute_create_account(config, sequence, context, sender, args, q) ==
    IF ~q.governance_ok
    THEN Failed("governance", Err("GovernanceVerify", None, None), sequence, context)
    ELSE IF ~SubAccountCreatorIsManager(args.governance, sender)
    THEN Failed("governance",
                Err("SubAccountCreatorNotManager", Some(sender), Some(args.governance.manager)),
                sequence, context)
    ELSE
    LET r == ResolveAccountId(config, sequence, sender, args.account_id) IN
    IF ~r.ok THEN Failed("account_id", r.err, r.sequence, context)
    ELSE
    LET account_id == r.id
        proxy_q == query_module(q.proxy_modules)
        manager_q == query_module(q.manager_modules)
    IN
    IF ~proxy_q.ok THEN Failed("modules", proxy_q.err, r.sequence, context)
    ELSE IF ~manager_q.ok THEN Failed("modules", manager_q.err, r.sequence, context)
    ELSE IF ~q.simulate_ok THEN Failed("simulate", Err("Query", None, None), r.sequence, context)
    ELSE IF is_some(args.namespace) /\ ~q.namespace_fee_ok
    THEN Failed("namespace_fee", Err("Query", None, None), r.sequence, context)
    ELSE
    LET proxy_module == unwrap(proxy_q.module)
        manager_module == unwrap(manager_q.module)
        funds_for_install == q.total_required_funds
        funds_for_namespace_fee == IF is_some(args.namespace) THEN q.namespace_fee ELSE <<>>
        converted == CoinsTryFrom(args.funds, EmptyCoins)
    IN
    IF ~converted.ok THEN Failed("funds", Err("panic", None, None), r.sequence, context)
    ELSE
    LET sub == CoinsSubAll(converted.coins, funds_for_install \o funds_for_namespace_fee) IN
    IF ~sub.ok
    THEN Failed("funds", Err("Fee", Some(funds_for_install), Some(args.funds)), r.sequence, context)
    ELSE IF ~(proxy_module.reference.kind = "AccountBase"
              /\ manager_module.reference.kind = "AccountBase")
    THEN Failed("module_kind", Err("WrongModuleKind", Some(proxy_module.info), Some("account_base")),
                r.sequence, context)
    ELSE IF ~q.code_info_ok THEN Failed("address", Err("Query", None, None), r.sequence, context)
    ELSE
    LET funds_to_proxy == sub.coins
        salt == generate_instantiate_salt(account_id)
        proxy_code_id == proxy_module.reference.code_id
        manager_code_id == manager_module.reference.code_id
        account_base == PredictAccountBase(proxy_code_id, manager_code_id, salt)
        proxy_addr == account_base.proxy
        manager_addr == account_base.manager
        new_context == [account_id |-> account_id, account_base |-> account_base,
                        manager_module |-> manager_module, proxy_module |-> proxy_module]
        register == WasmExecute(config.version_control_contract, funds_for_namespace_fee,
                        [account_id |-> account_id, account_base |-> account_base,
                         namespace |-> args.namespace])
        proxy == WasmInstantiate2(proxy_code_id, CoinsIntoVec(funds_to_proxy), manager_addr,
                        [account_id |-> account_id, manager_addr |-> manager_addr],
                        salt, "never", 0)
        manager == WasmInstantiate2(manager_code_id, funds_for_install, manager_addr,
                        [account_id |-> account_id, proxy_addr |-> proxy_addr],
                        salt, "success", CREATE_ACCOUNT_MANAGER_MSG_ID)
    IN
    [ok |-> TRUE, step |-> "done", err |-> NoErr, sequence |-> r.sequence,
     context |-> Some(new_context),
     msgs |-> CreateAccountMessages(register, proxy, manager),
     account_id |-> Some(account_id), funds_to_proxy |-> Some(funds_to_proxy),
     funds_for_install |-> Some(funds_for_install),
     funds_for_namespace_fee |-> Some(funds_for_namespace_fee)]

----------------------------------------------------------------------------
(* validate_instantiated_account *)

\* u32::checked_add
\* the wrapping addition
checked_add_wrapping(a, b) ==
    IF a > U32_MAX - b THEN Some(b - (U32_MAX - a) - 1) ELSE Some(a + b)

checked_add(a, b) == IF a > U32_MAX - b THEN None ELSE Some(a + b)

\* the attributes of the validator's response
ConfirmationEvent(account_id, account_base) ==
    [account |-> account_id, manager_address |-> account_base.manager,
     proxy_address |-> account_base.proxy]

\* the variant that leaves the Context in place
validate_instantiated_account_keep(sequence, context, v) ==
    IF context = None
    THEN [ok |-> FALSE, err |-> Err("ContextNotFound", None, None),
          sequence |-> sequence, context |-> context, account_id |-> None, event |-> None]
    ELSE
    LET ctx == unwrap(context)
        account_id == ctx.account_id
    IN
    IF ~v.manager_valid
    THEN [ok |-> FALSE, err |-> Err("ModuleValidity", Some(ctx.account_base.manager), None),
          sequence |-> sequence, context |-> context, account_id |-> None, event |-> None]
    ELSE IF ~v.proxy_valid
    THEN [ok |-> FALSE, err |-> Err("ModuleValidity", Some(ctx.account_base.proxy), None),
          sequence |-> sequence, context |-> context, account_id |-> None, event |-> None]
    ELSE IF is_local(account_id) /\ checked_add(account_id.seq, 1) = None
    THEN [ok |-> FALSE, err |-> Err("panic", None, None),
          sequence |-> sequence, context |-> context, account_id |-> None, event |-> None]
    ELSE [ok |-> TRUE, err |-> NoErr,
          sequence |-> IF is_local(account_id) THEN checked_add(account_id.seq, 1) ELSE sequence,
          context |-> context, account_id |-> Some(account_id),
          event |-> Some(ConfirmationEvent(account_id, ctx.account_base))]

\* the variant that advances the counter for every origin
validate_instantiated_account_any(sequence, context, v) ==
    IF context = None
    THEN [ok |-> FALSE, err |-> Err("ContextNotFound", None, None),
          sequence |-> sequence, context |-> context, account_id |-> None, event |-> None]
    ELSE
    LET ctx == unwrap(context)
        account_id == ctx.account_id
    IN
    IF ~v.manager_valid
    THEN [ok |-> FALSE, err |-> Err("ModuleValidity", Some(ctx.account_base.manager), None),
          sequence |-> sequence, context |-> None, account_id |-> None, event |-> None]
    ELSE IF ~v.proxy_valid
    THEN [ok |-> FALSE, err |-> Err("ModuleValidity", Some(ctx.account_base.proxy), None),
          sequence |-> sequence, context |-> None, account_id |-> None, event |-> None]
    ELSE IF checked_add(account_id.seq, 1) = None
    THEN [ok |-> FALSE, err |-> Err("panic", None, None),
          sequence |-> sequence, context |-> None, account_id |-> None, event |-> None]
    ELSE [ok |-> TRUE, err |-> NoErr,
          sequence |-> checked_add(account_id.seq, 1),
          context |-> None, account_id |-> Some(account_id),
          event |-> Some(ConfirmationEvent(account_id, ctx.account_base))]

\* v = [manager_valid, proxy_valid]: the verdicts of assert_module_data_validity;
\* `sequence` and `context` of the result are the storage at the return
validate_instantiated_account(sequence, context, v) ==
    IF context = None
    THEN [ok |-> FALSE, err |-> Err("ContextNotFound", None, None),
          sequence |-> sequence, context |-> context, account_id |-> None, event |-> None]
    ELSE
    LET ctx == unwrap(context)
        account_id == ctx.account_id
    IN
    IF ~v.manager_valid
    THEN [ok |-> FALSE, err |-> Err("ModuleValidity", Some(ctx.account_base.manager), None),
          sequence |-> sequence, context |-> None, account_id |-> None, event |-> None]
    ELSE IF ~v.proxy_valid
    THEN [ok |-> FALSE, err |-> Err("ModuleValidity", Some(ctx.account_base.proxy), None),
          sequence |-> sequence, context |-> None, account_id |-> None, event |-> None]
    ELSE IF is_local(account_id) /\ checked_add(account_id.seq, 1) = None
    THEN [ok |-> FALSE, err |-> Err("panic", None, None),
          sequence |-> sequence, context |-> None, account_id |-> None, event |-> None]
    ELSE [ok |-> TRUE, err |-> NoErr,
          sequence |-> IF is_local(account_id) THEN checked_add(account_id.seq, 1) ELSE sequence,
          context |-> None, account_id |-> Some(account_id),
          event |-> Some(ConfirmationEvent(account_id, ctx.account_base))]

----------------------------------------------------------------------------
(* execute_update_config *)

\* deps.api.addr_validate
ValidAddrs == {"ans", "vc", "mf", "host", "host2"}
addr_validate(a) == a \in ValidAddrs

\* the parameters in the order the handler validates them
ConfigFields ==
    <<"ans_host_contract", "version_control_contract", "module_factory_address", "ibc_host">>

\* a variant that saves each field as soon as it is validated
execute_update_config_eager(config, sender, args) ==
    IF sender # Owner
    THEN [ok |-> FALSE, err |-> Err("NotOwner", Some(sender), None), config |-> config]
    ELSE
    LET supplied == {f \in DOMAIN args : is_some(args[f])}
        bad == {i \in 1..Len(ConfigFields) :
                    /\ ConfigFields[i] \in supplied
                    /\ ~addr_validate(unwrap(args[ConfigFields[i]]))}
        stop == IF bad = {} THEN Len(ConfigFields) + 1
                ELSE CHOOSE i \in bad : \A j \in bad : i <= j
        done == {ConfigFields[i] : i \in 1..(stop - 1)} \cap supplied
    IN [ok |-> bad = {},
        err |-> IF bad = {} THEN NoErr ELSE Err("InvalidAddress", None, None),
        config |-> [f \in DOMAIN config |->
                        IF f \in done
                        THEN (IF f = "ibc_host" THEN args[f] ELSE unwrap(args[f]))
                        ELSE config[f]]]

\* args: four Option<String>; the first invalid address returns before the save
execute_update_config(config, sender, args) ==
    IF sender # Owner
    THEN [ok |-> FALSE, err |-> Err("NotOwner", Some(sender), None), config |-> config]
    ELSE
    LET supplied == {f \in DOMAIN args : is_some(args[f])} IN
    IF \E f \in supplied : ~addr_validate(unwrap(args[f]))
    THEN [ok |-> FALSE, err |-> Err("InvalidAddress", None, None), config |-> config]
    ELSE [ok |-> TRUE, err |-> NoErr,
          config |-> [f \in DOMAIN config |->
                        IF f \in supplied
                        THEN (IF f = "ibc_host" THEN args[f] ELSE unwrap(args[f]))
                        ELSE config[f]]]

----------------------------------------------------------------------------
(* Inputs of the entry points *)

Governances == {[type |-> "Monarchy", manager |-> "none"],
                [type |-> "SubAccount", manager |-> "user"]}
DefaultGovernance == [type |-> "Monarchy", manager |-> "none"]

\* the identifiers a caller may supply
RemoteIds == {AccountId(7, "Remote"), AccountId(7, "RemoteMalformed")}
SuppliedIds == {None}
               \cup {Some(AccountId(n, "Local")) : n \in 0..MaxAccounts}
               \cup {Some(id) : id \in RemoteIds}

RECURSIVE SeqsUpTo(_, _)
\* the sequences over S of length at most n
SeqsUpTo(S, n) ==
    IF n = 0 THEN {<<>>}
    ELSE LET shorter == SeqsUpTo(S, n - 1) IN
         shorter \cup {Append(q, x) : q \in shorter, x \in S}

\* info.funds
Deposits == SeqsUpTo({Coin(d, a) : d \in Denoms, a \in 1..MaxAmount}, MaxFundsLen)
\* SimulateInstallModulesResponse.total_required_funds
InstallCosts == {<<>>, <<Coin("ua", 1)>>, <<Coin("ua", 1), Coin("ub", 1)>>, <<Coin("ub", 2)>>,
                 <<Coin("ua", 1), Coin("ua", 1)>>}
\* namespace_registration_fee(): Option<Coin>, collected into a Vec
NamespaceFees == {<<>>, <<Coin("ua", 1)>>, <<Coin("ub", 1)>>}

ProxyModule == Module(PROXY, "AccountBase", 1)
ManagerModule == Module(MANAGER, "AccountBase", 2)

\* the collaborators answer every query, with the given costs
GoodQ(cost, fee) ==
    [governance_ok |-> TRUE,
     proxy_modules |-> [ok |-> TRUE, modules |-> <<ProxyModule>>],
     manager_modules |-> [ok |-> TRUE, modules |-> <<ManagerModule>>],
     simulate_ok |-> TRUE, total_required_funds |-> cost,
     namespace_fee_ok |-> TRUE, namespace_fee |-> fee,
     code_info_ok |-> TRUE]

\* the registry has moved the proxy to a newer code
UpgradedQ == [GoodQ(<<>>, <<>>) EXCEPT
                 !.proxy_modules = [ok |-> TRUE, modules |-> <<Module(PROXY, "AccountBase", 3)>>]]

\* one collaborator at a time answers differently
BadQs ==
    LET g == GoodQ(<<>>, <<>>) IN
    { [g EXCEPT !.governance_ok = FALSE],
      [g EXCEPT !.proxy_modules = [ok |-> FALSE, modules |-> <<>>]],
      [g EXCEPT !.manager_modules = [ok |-> FALSE, modules |-> <<>>]],
      [g EXCEPT !.proxy_modules = [ok |-> TRUE, modules |-> <<>>]],
      [g EXCEPT !.proxy_modules = [ok |-> TRUE, modules |-> <<Module(PROXY, "App", 1)>>]],
      [g EXCEPT !.manager_modules = [ok |-> TRUE, modules |-> <<Module(MANAGER, "Native", 2)>>]],
      [g EXCEPT !.simulate_ok = FALSE],
      [g EXCEPT !.namespace_fee_ok = FALSE],
      [g EXCEPT !.code_info_ok = FALSE] }

Request(sender, governance, namespace, account_id, funds, q) ==
    [sender |-> sender,
     args |-> [governance |-> governance, namespace |-> namespace,
               account_id |-> account_id, funds |-> funds],
     q |-> q]

\* the create_account requests of the model: every caller, governance and
\* identifier with a free creation; every deposit and cost for the owner; every
\* failing collaborator for the owner
Requests ==
    { Request(s, g, None, id, <<>>, q) :
        s \in Senders, g \in Governances, id \in SuppliedIds, q \in {GoodQ(<<>>, <<>>), UpgradedQ} }
    \cup
    { Request(Owner, DefaultGovernance, ns, None, d, GoodQ(c, f)) :
        ns \in {None, Some("ns")}, d \in Deposits, c \in InstallCosts, f \in NamespaceFees }
    \cup
    { Request(Owner, DefaultGovernance, Some("ns"), None, <<>>, q) : q \in BadQs }

ValidatorVerdicts ==
    { [manager_valid |-> TRUE, proxy_valid |-> TRUE],
      [manager_valid |-> FALSE, proxy_valid |-> TRUE],
      [manager_valid |-> TRUE, proxy_valid |-> FALSE] }

ConfigUpdates ==
    { [ans_host_contract |-> None, version_control_contract |-> None,
       module_factory_address |-> None, ibc_host |-> h] :
        h \in {None, Some("host"), Some("")} }

\* the create_account requests made while another run may be suspended: a
\* free creation by every caller, with a local or a remote identifier and
\* either proxy code
ReentrantRequests ==
    { Request(s, DefaultGovernance, None, id, <<>>, q) :
        s \in Senders,
        id \in {None} \cup {Some(r) : r \in RemoteIds},
        q \in {GoodQ(<<>>, <<>>), UpgradedQ} }

\* update_config with every parameter omitted, valid or malformed
WideConfigUpdates ==
    [ {"ans_host_contract", "version_control_contract", "module_factory_address", "ibc_host"}
        -> {None, Some("host2"), Some("")} ]

----------------------------------------------------------------------------
(* State *)

VARIABLES
    CONFIG,                  \* Item<Config>
    LOCAL_ACCOUNT_SEQUENCE,  \* Item<u32>, None while unset
    CONTEXT,                 \* Item<Context>, None while absent
    registry,                \* identifiers registered with version control
    contracts,               \* addresses at which a contract is instantiated
    committed,               \* the state as of the last transaction boundary
    pc,                      \* "idle" | "dispatch" | "reply" | "failed" | "succeeded"
    pending,                 \* messages of the running transaction still to dispatch
    executed,                \* messages of the running transaction dispatched so far
    confirming,              \* identifiers the validator confirmed in the running transaction
    confirmed,               \* identifiers confirmed by committed transactions, in order
    call,                    \* the last entry point invoked in the running transaction
    failure,                 \* where the running transaction failed, None if it has not
    stack                    \* the suspended runs of the factory, innermost last

vars == <<CONFIG, LOCAL_ACCOUNT_SEQUENCE, CONTEXT, registry, contracts, committed,
          pc, pending, executed, confirming, confirmed, call, failure, stack>>

Snapshot(config, sequence, context, reg, ctr) ==
    [CONFIG |-> config, LOCAL_ACCOUNT_SEQUENCE |-> sequence, CONTEXT |-> context,
     registry |-> reg, contracts |-> ctr]

InitConfig(h) ==
    [ans_host_contract |-> "ans", version_control_contract |-> "vc",
     module_factory_address |-> "mf", ibc_host |-> h]

NoCall == [entry |-> "none", ok |-> TRUE, err |-> NoErr, writes |-> {}]

Init ==
    /\ \E h \in {None, Some("host")} : CONFIG = InitConfig(h)
    /\ LOCAL_ACCOUNT_SEQUENCE = None
    /\ CONTEXT = None
    /\ registry = {}
    /\ contracts = {}
    /\ committed = Snapshot(CONFIG, LOCAL_ACCOUNT_SEQUENCE, CONTEXT, registry, contracts)
    /\ pc = "idle"
    /\ pending = <<>>
    /\ executed = <<>>
    /\ confirming = <<>>
    /\ confirmed = <<>>
    /\ call = NoCall
    /\ failure = None
    /\ stack = <<>>

\* the storage items whose value a call changed
Writes(config, sequence, context) ==
    (IF config # CONFIG THEN {"CONFIG"} ELSE {})
    \cup (IF sequence # LOCAL_ACCOUNT_SEQUENCE THEN {"LOCAL_ACCOUNT_SEQUENCE"} ELSE {})
    \cup (IF context # CONTEXT THEN {"CONTEXT"} ELSE {})

----------------------------------------------------------------------------
(* The entry points of the factory *)

\* ExecuteMsg::CreateAccount, as the first call of a transaction
CreateAccount(req) ==
    /\ pc = "idle"
    /\ Len(confirmed) < MaxAccounts
    /\ LET r == execute_create_account(CONFIG, LOCAL_ACCOUNT_SEQUENCE, CONTEXT,
                                       req.sender, req.args, req.q)
       IN /\ LOCAL_ACCOUNT_SEQUENCE' = r.sequence
          /\ CONTEXT' = r.context
          /\ call' = [entry |-> "create_account", sender |-> req.sender, args |-> req.args,
                      q |-> req.q, ok |-> r.ok, err |-> r.err, step |-> r.step,
                      writes |-> Writes(CONFIG, r.sequence, r.context),
                      msgs |-> r.msgs, account_id |-> r.account_id,
                      funds_to_proxy |-> r.funds_to_proxy,
                      funds_for_install |-> r.funds_for_install,
                      funds_for_namespace_fee |-> r.funds_for_namespace_fee]
          /\ pending' = r.msgs
          /\ pc' = IF r.ok THEN "dispatch" ELSE "failed"
          /\ failure' = IF r.ok THEN None ELSE Some([at |-> "create_account", msg |-> None])
    /\ UNCHANGED <<CONFIG, registry, contracts, committed, executed, confirming, confirmed,
                   stack>>

\* what the reply entry point does to the running transaction
RunValidator(v) ==
    LET r == validate_instantiated_account(LOCAL_ACCOUNT_SEQUENCE, CONTEXT, v) IN
    /\ LOCAL_ACCOUNT_SEQUENCE' = r.sequence
    /\ CONTEXT' = r.context
    /\ call' = [entry |-> "validate_instantiated_account", ok |-> r.ok, err |-> r.err,
                writes |-> Writes(CONFIG, r.sequence, r.context),
                account_id |-> r.account_id, context |-> CONTEXT,
                sequence |-> LOCAL_ACCOUNT_SEQUENCE, event |-> r.event,
                trigger |-> IF executed = <<>> THEN None ELSE Some(executed[Len(executed)])]
    /\ confirming' = IF r.ok THEN Append(confirming, unwrap(r.account_id)) ELSE confirming
    /\ pc' = IF ~r.ok THEN "failed" ELSE IF pending = <<>> THEN "succeeded" ELSE "dispatch"
    /\ failure' = IF r.ok THEN None ELSE Some([at |-> "reply", msg |-> None])
    /\ UNCHANGED <<CONFIG, registry, contracts, committed, pending, executed, confirmed,
                   stack>>

\* reply(CREATE_ACCOUNT_MANAGER_MSG_ID): the continuation of the controller
\* instantiation
Reply(v) ==
    /\ pc = "reply"
    /\ RunValidator(v)

\* the continuation invoked again, with no creation run in progress
ReplyOutsideRun(v) ==
    /\ pc = "idle"
    /\ RunValidator(v)

\* ExecuteMsg::UpdateConfig, a transaction of its own
UpdateConfig(sender, args) ==
    /\ pc = "idle"
    /\ LET r == execute_update_config(CONFIG, sender, args) IN
       /\ CONFIG' = r.config
       /\ call' = [entry |-> "update_config", sender |-> sender, args |-> args,
                   ok |-> r.ok, err |-> r.err,
                   writes |-> Writes(r.config, LOCAL_ACCOUNT_SEQUENCE, CONTEXT)]
       /\ pc' = IF r.ok THEN "succeeded" ELSE "failed"
       /\ failure' = IF r.ok THEN None ELSE Some([at |-> "update_config", msg |-> None])
    /\ UNCHANGED <<LOCAL_ACCOUNT_SEQUENCE, CONTEXT, registry, contracts, committed,
                   pending, executed, confirming, confirmed, stack>>

----------------------------------------------------------------------------
(* The host ledger: dispatch of the emitted messages, commit and rollback *)

\* the address an Instantiate2 message creates its contract at
TargetAddr(m) == instantiate2_address(Checksum(unwrap(m.code_id)), FactoryAddr, unwrap(m.salt))
\* the controller's instantiate message names the proxy it registers
IsManagerInstantiate(m) == m.type = "Instantiate2" /\ "proxy_addr" \in DOMAIN m.msg

\* whether the target of the message accepts it in the current state
Accepts(m) ==
    IF m.type = "Execute"
    THEN m.msg.account_id \notin registry
    ELSE /\ TargetAddr(m) \notin contracts
         /\ IsManagerInstantiate(m) =>
                /\ m.msg.account_id \in registry
                /\ m.msg.proxy_addr \in contracts

\* the next message succeeds
DispatchOk ==
    /\ pc = "dispatch"
    /\ pending # <<>>
    /\ LET m == Head(pending) IN
       /\ Accepts(m)
       /\ registry' = IF m.type = "Execute" THEN registry \cup {m.msg.account_id} ELSE registry
       /\ contracts' = IF m.type = "Instantiate2" THEN contracts \cup {TargetAddr(m)} ELSE contracts
       /\ executed' = Append(executed, m)
       /\ pending' = Tail(pending)
       /\ pc' = IF m.reply_on \in {"success", "always"} THEN "reply"
                ELSE IF Tail(pending) = <<>> THEN "succeeded" ELSE "dispatch"
    /\ UNCHANGED <<CONFIG, LOCAL_ACCOUNT_SEQUENCE, CONTEXT, committed, confirming, confirmed,
                   call, failure, stack>>

\* the next message fails: its own effects are dropped; the failure is handed
\* to the reply entry point if the message asks for it, else it fails the
\* transaction
DispatchFail ==
    /\ pc = "dispatch"
    /\ pending # <<>>
    /\ LET m == Head(pending) IN
       IF m.reply_on \in {"error", "always"}
       THEN /\ pc' = "reply"
            /\ pending' = Tail(pending)
            /\ failure' = failure
       ELSE /\ pc' = "failed"
            /\ pending' = pending
            /\ failure' = Some([at |-> "dispatch", msg |-> Some(m)])
    /\ UNCHANGED <<CONFIG, LOCAL_ACCOUNT_SEQUENCE, CONTEXT, registry, contracts, committed,
                   executed, confirming, confirmed, call, stack>>

\* the outermost run succeeded: the writes of the transaction become the new
\* boundary
CommitTx ==
    /\ pc = "succeeded"
    /\ stack = <<>>
    /\ committed' = Snapshot(CONFIG, LOCAL_ACCOUNT_SEQUENCE, CONTEXT, registry, contracts)
    /\ confirmed' = confirmed \o confirming
    /\ pc' = "idle"
    /\ pending' = <<>>
    /\ executed' = <<>>
    /\ confirming' = <<>>
    /\ call' = NoCall
    /\ failure' = None
    /\ UNCHANGED <<CONFIG, LOCAL_ACCOUNT_SEQUENCE, CONTEXT, registry, contracts, stack>>

\* the transaction failed: every write since the last boundary is dropped
AbortTx ==
    /\ pc = "failed"
    /\ CONFIG' = committed.CONFIG
    /\ LOCAL_ACCOUNT_SEQUENCE' = committed.LOCAL_ACCOUNT_SEQUENCE
    /\ CONTEXT' = committed.CONTEXT
    /\ registry' = committed.registry
    /\ contracts' = committed.contracts
    /\ pc' = "idle"
    /\ pending' = <<>>
    /\ executed' = <<>>
    /\ confirming' = <<>>
    /\ call' = NoCall
    /\ failure' = None
    /\ stack' = <<>>
    /\ UNCHANGED <<committed, confirmed>>

Next ==
    \/ \E req \in Requests : CreateAccount(req)
    \/ \E v \in ValidatorVerdicts : Reply(v)
    \/ \E v \in ValidatorVerdicts : ReplyOutsideRun(v)
    \/ \E s \in Senders, a \in ConfigUpdates : UpdateConfig(s, a)
    \/ DispatchOk
    \/ DispatchFail
    \/ CommitTx
    \/ AbortTx

Spec == Init /\ [][Next]_vars

----------------------------------------------------------------------------
(* Re-entrant calls: a contract run by the message being dispatched calls the
   factory again before that message completes *)

\* ExecuteMsg::CreateAccount, called while the run whose message is being
\* dispatched is suspended
EnterNested(req) ==
    /\ pc = "dispatch"
    /\ pending # <<>>
    /\ Len(stack) < MaxDepth
    /\ Len(confirmed) + Len(confirming) < MaxAccounts
    /\ stack' = Append(stack,
                       [pending |-> pending, executed |-> executed, confirming |-> confirming,
                        storage |-> Snapshot(CONFIG, LOCAL_ACCOUNT_SEQUENCE, CONTEXT,
                                             registry, contracts)])
    /\ LET r == execute_create_account(CONFIG, LOCAL_ACCOUNT_SEQUENCE, CONTEXT,
                                       req.sender, req.args, req.q)
       IN /\ LOCAL_ACCOUNT_SEQUENCE' = r.sequence
          /\ CONTEXT' = r.context
          /\ call' = [entry |-> "create_account", sender |-> req.sender, args |-> req.args,
                      q |-> req.q, ok |-> r.ok, err |-> r.err, step |-> r.step,
                      writes |-> Writes(CONFIG, r.sequence, r.context),
                      msgs |-> r.msgs, account_id |-> r.account_id,
                      funds_to_proxy |-> r.funds_to_proxy,
                      funds_for_install |-> r.funds_for_install,
                      funds_for_namespace_fee |-> r.funds_for_namespace_fee]
          /\ pending' = r.msgs
          /\ executed' = <<>>
          /\ pc' = IF r.ok THEN "dispatch" ELSE "failed"
          /\ failure' = IF r.ok THEN None ELSE Some([at |-> "create_account", msg |-> None])
    /\ UNCHANGED <<CONFIG, registry, contracts, committed, confirming, confirmed>>

\* the nested run succeeded: its writes stay and the suspended run's message
\* goes on
ReturnNested ==
    /\ pc = "succeeded"
    /\ stack # <<>>
    /\ LET f == stack[Len(stack)] IN
       /\ pending' = f.pending
       /\ executed' = f.executed
    /\ stack' = SubSeq(stack, 1, Len(stack) - 1)
    /\ pc' = "dispatch"
    /\ call' = NoCall
    /\ failure' = None
    /\ UNCHANGED <<CONFIG, LOCAL_ACCOUNT_SEQUENCE, CONTEXT, registry, contracts, committed,
                   confirming, confirmed>>

\* the nested run failed: its writes are dropped; its caller either handles
\* the failure (the suspended message goes on) or fails in turn
RevertNested ==
    /\ pc = "failed"
    /\ stack # <<>>
    /\ LET f == stack[Len(stack)] IN
       /\ CONFIG' = f.storage.CONFIG
       /\ LOCAL_ACCOUNT_SEQUENCE' = f.storage.LOCAL_ACCOUNT_SEQUENCE
       /\ CONTEXT' = f.storage.CONTEXT
       /\ registry' = f.storage.registry
       /\ contracts' = f.storage.contracts
       /\ confirming' = f.confirming
       /\ pending' = f.pending
       /\ executed' = f.executed
    /\ stack' = SubSeq(stack, 1, Len(stack) - 1)
    /\ pc' = "dispatch"
    /\ call' = NoCall
    /\ failure' = None
    /\ UNCHANGED <<committed, confirmed>>

NextReentrant ==
    \/ \E req \in ReentrantRequests : CreateAccount(req)
    \/ \E req \in ReentrantRequests : EnterNested(req)
    \/ \E v \in ValidatorVerdicts : Reply(v)
    \/ DispatchOk
    \/ DispatchFail
    \/ ReturnNested
    \/ RevertNested
    \/ CommitTx
    \/ AbortTx

SpecReentrant == Init /\ [][NextReentrant]_vars

\* the factory after so many confirmed local accounts that one more
\* confirmation brings the counter to its maximum
InitOverflow ==
    /\ \E h \in {None, Some("host")} : CONFIG = InitConfig(h)
    /\ LOCAL_ACCOUNT_SEQUENCE = Some(U32_MAX - 1)
    /\ CONTEXT = None
    /\ registry = {}
    /\ contracts = {}
    /\ committed = Snapshot(CONFIG, LOCAL_ACCOUNT_SEQUENCE, CONTEXT, registry, contracts)
    /\ pc = "idle"
    /\ pending = <<>>
    /\ executed = <<>>
    /\ confirming = <<>>
    /\ confirmed = <<>>
    /\ call = NoCall
    /\ failure = None
    /\ stack = <<>>

SpecOverflow == InitOverflow /\ [][Next]_vars

\* the factory under configuration updates alone, over every combination of
\* omitted, valid and malformed parameters
NextConfig ==
    \/ \E s \in Senders, a \in WideConfigUpdates : UpdateConfig(s, a)
    \/ CommitTx
    \/ AbortTx

SpecConfig == Init /\ [][NextConfig]_vars

----------------------------------------------------------------------------
(* Properties *)

\* the counter as allocation reads it
Counter(sequence) == unwrap_or(sequence, 0)
\* a transaction ends in this step
Boundary == pc # "idle" /\ pc' = "idle"
IsCreateCall == call.entry = "create_account"
IsValidatorCall == call.entry = "validate_instantiated_account"

\* C1: a transaction that commits the confirmation of a local-origin account
\* leaves the persisted counter exactly 1 above its value before the
\* transaction; every other transaction (a confirmed remote-origin account, an
\* update_config, any abort) leaves the persisted counter as it was.
C1_CounterAdvancesOnlyOnLocalConfirmation ==
    [][Boundary =>
        IF pc = "succeeded" /\ \E i \in 1..Len(confirming) : is_local(confirming[i])
        THEN LOCAL_ACCOUNT_SEQUENCE' = Some(Counter(committed.LOCAL_ACCOUNT_SEQUENCE) + 1)
        ELSE LOCAL_ACCOUNT_SEQUENCE' = committed.LOCAL_ACCOUNT_SEQUENCE]_vars

\* two local accounts and a remote one are confirmed and the counter is 2
C1_Witness ==
    /\ pc = "idle"
    /\ Len(confirmed) = 3
    /\ \E i \in 1..3 : ~is_local(confirmed[i])
    /\ LOCAL_ACCOUNT_SEQUENCE = Some(2)

\* the accounts that exist: registered, with both contracts instantiated
AccountsOf(reg, ctr) ==
    {id \in reg : \E p \in ctr, m \in ctr :
        /\ p # m
        /\ p[4] = generate_instantiate_salt(id)
        /\ m[4] = generate_instantiate_salt(id)}

\* C2: at every transaction boundary the Context slot is empty, and every
\* registered identifier and every instantiated contract belongs to a confirmed
\* account (no partially created account).
C2_NoDanglingContext ==
    pc = "idle" =>
        /\ CONTEXT = None
        /\ committed.CONTEXT = None
        /\ registry = {confirmed[i] : i \in 1..Len(confirmed)}
        /\ AccountsOf(registry, contracts) = registry
        /\ Cardinality(contracts) = 2 * Len(confirmed)

\* a boundary after a confirmed creation
C2_Witness ==
    /\ pc = "idle"
    /\ Len(confirmed) = 2
    /\ CONTEXT = None
    /\ Cardinality(contracts) = 4

\* C3: whenever the validator has run, the Context slot is empty; invoked
\* with no creation run in progress it fails with the Context load error and
\* leaves counter, Context and Configuration as they were.
C3_ValidatorConsumesOnce ==
    IsValidatorCall =>
        /\ CONTEXT = None
        /\ executed = <<>> =>
              /\ ~call.ok
              /\ call.err.kind = "ContextNotFound"
              /\ call.writes = {}
              /\ LOCAL_ACCOUNT_SEQUENCE = committed.LOCAL_ACCOUNT_SEQUENCE
              /\ CONTEXT = committed.CONTEXT
              /\ CONFIG = committed.CONFIG

\* the validator invoked again after a run was confirmed
C3_Witness ==
    /\ IsValidatorCall
    /\ executed = <<>>
    /\ confirmed # <<>>
    /\ pc = "failed"

\* C4: over any step that is not a confirmation by the validator, local
\* allocation yields the same identifier before and after, for every caller for
\* whom it succeeds; the identifier is {counter or 0, Local} and the call leaves
\* the counter as stored.
C4_AllocationIdempotent ==
    [][Len(confirming') <= Len(confirming) =>
        \A s \in Senders :
            LET a == generate_new_local_account_id(LOCAL_ACCOUNT_SEQUENCE, s)
                b == generate_new_local_account_id(LOCAL_ACCOUNT_SEQUENCE', s)
            IN (a.ok /\ b.ok) =>
                /\ a.id = b.id
                /\ a.id = AccountId(Counter(LOCAL_ACCOUNT_SEQUENCE), "Local")
                /\ a.sequence = LOCAL_ACCOUNT_SEQUENCE]_vars

\* a second allocation for the same counter, after a creation was confirmed
C4_Witness ==
    /\ IsCreateCall
    /\ call.sender = "user"
    /\ call.args.account_id = None
    /\ committed.LOCAL_ACCOUNT_SEQUENCE = Some(1)
    /\ call.account_id = Some(AccountId(1, "Local"))
    /\ pc = "failed"

\* the amounts of a create_account call, per denomination: the deposit, the
\* installation cost and the namespace cost (empty without a namespace)
Deposit(x) == VecAmount(call.args.funds, x)
InstallCost(x) == VecAmount(call.q.total_required_funds, x)
NamespaceCost(x) ==
    IF is_some(call.args.namespace) THEN VecAmount(call.q.namespace_fee, x) ELSE 0
\* the deposit lists every denomination at most once
ListsOnce(vec) == \A i, j \in 1..Len(vec) : vec[i].denom = vec[j].denom => i = j
\* the call got as far as the fund partition
ReachedPartition == call.step \in {"funds", "module_kind", "address", "done"}
\* the emitted messages by their role
RegisterMsgs(msgs) == SelectSeq(msgs, LAMBDA m : m.type = "Execute")
ProxyMsgs(msgs) == SelectSeq(msgs, LAMBDA m : m.type = "Instantiate2" /\ ~IsManagerInstantiate(m))
ManagerMsgs(msgs) == SelectSeq(msgs, LAMBDA m : IsManagerInstantiate(m))

C6_FundsConserved ==
    (IsCreateCall /\ call.ok) =>
        /\ Len(RegisterMsgs(call.msgs)) = 1
        /\ Len(ProxyMsgs(call.msgs)) = 1
        /\ Len(ManagerMsgs(call.msgs)) = 1
        /\ RegisterMsgs(call.msgs)[1].funds = unwrap(call.funds_for_namespace_fee)
        /\ ProxyMsgs(call.msgs)[1].funds = CoinsIntoVec(unwrap(call.funds_to_proxy))
        /\ ManagerMsgs(call.msgs)[1].funds = call.q.total_required_funds
        /\ \A x \in Denoms :
              /\ VecAmount(RegisterMsgs(call.msgs)[1].funds, x) = NamespaceCost(x)
              /\ VecAmount(RegisterMsgs(call.msgs)[1].funds, x)
                   + VecAmount(ProxyMsgs(call.msgs)[1].funds, x)
                   + VecAmount(ManagerMsgs(call.msgs)[1].funds, x) = Deposit(x)

\* all three operations carry funds
C6_Witness ==
    /\ IsCreateCall
    /\ call.ok
    /\ RegisterMsgs(call.msgs)[1].funds # <<>>
    /\ ProxyMsgs(call.msgs)[1].funds # <<>>
    /\ ManagerMsgs(call.msgs)[1].funds # <<>>

\* C7: a successful create_account emits exactly the register operation, the
\* proxy instantiation and the controller instantiation, in this order, the
\* third alone with a reply (on success, CREATE_ACCOUNT_MANAGER_MSG_ID); the
\* validator runs in a creation run only once these three have executed in this
\* order; and a failed transaction, the controller instantiation's failure
\* included, ends with registry, contracts and storage as at the last boundary.
C7_ThreeOperationsInOrder ==
    /\ []((IsCreateCall /\ call.ok) =>
            /\ Len(call.msgs) = 3
            /\ call.msgs[1].type = "Execute"
            /\ call.msgs[1].contract_addr = Some(CONFIG.version_control_contract)
            /\ call.msgs[1].reply_on = "never"
            /\ call.msgs[2].type = "Instantiate2"
            /\ ~IsManagerInstantiate(call.msgs[2])
            /\ call.msgs[2].reply_on = "never"
            /\ IsManagerInstantiate(call.msgs[3])
            /\ call.msgs[3].reply_on = "success"
            /\ call.msgs[3].id = CREATE_ACCOUNT_MANAGER_MSG_ID)
    /\ []((pc = "reply" \/ (IsValidatorCall /\ executed # <<>>)) =>
            /\ Len(executed) = 3
            /\ executed[1].type = "Execute"
            /\ executed[2].type = "Instantiate2" /\ ~IsManagerInstantiate(executed[2])
            /\ IsManagerInstantiate(executed[3])
            /\ pending = <<>>)
    /\ [][pc = "failed" =>
            /\ pc' = "idle"
            /\ registry' = committed.registry
            /\ contracts' = committed.contracts
            /\ CONTEXT' = committed.CONTEXT
            /\ LOCAL_ACCOUNT_SEQUENCE' = committed.LOCAL_ACCOUNT_SEQUENCE
            /\ confirmed' = confirmed
            /\ committed' = committed]_vars

\* the controller instantiation failed after registration and proxy
\* instantiation had executed
C7_Witness ==
    /\ pc = "failed"
    /\ is_some(failure)
    /\ unwrap(failure).at = "dispatch"
    /\ IsManagerInstantiate(unwrap(unwrap(failure).msg))
    /\ Len(executed) = 2
    /\ registry # committed.registry
    /\ contracts # committed.contracts

\* C8: no identifier is confirmed twice, and the sequences of the confirmed
\* local-origin accounts strictly increase in confirmation order.
C8_UniqueIdentifiers ==
    \A i, j \in 1..Len(confirmed) :
        i < j =>
            /\ confirmed[i] # confirmed[j]
            /\ (is_local(confirmed[i]) /\ is_local(confirmed[j])) =>
                   confirmed[i].seq < confirmed[j].seq

\* a creation with an already confirmed remote identifier fails at dispatch,
\* after a local account was confirmed as well
C8_Witness ==
    /\ pc = "failed"
    /\ IsCreateCall
    /\ call.ok
    /\ ~is_local(unwrap(call.account_id))
    /\ \E i \in 1..Len(confirmed) : confirmed[i] = unwrap(call.account_id)
    /\ \E i \in 1..Len(confirmed) : is_local(confirmed[i])
    /\ unwrap(failure).at = "dispatch"

\* the call needs a local identifier: none supplied, or a local one
NeedsLocalId ==
    call.args.account_id = None \/ is_local(unwrap(call.args.account_id))
\* the call got past the governance step
GovernanceResolved == call.step # "governance"

\* C9: a create_account that needs a local identifier and has resolved its
\* governance: when the counter (0 if unset) is the reserved sequence and the
\* caller is not the owner it fails at the identifier step with the owner
\* authorization error and no Context is written; for every other counter value
\* the allocation does not fail for any caller.
C9_BootstrapNeedsOwner ==
    (IsCreateCall /\ NeedsLocalId /\ GovernanceResolved) =>
        IF Counter(committed.LOCAL_ACCOUNT_SEQUENCE) = ABSTRACT_ACCOUNT_ID_SEQ
        THEN call.sender # Owner =>
                /\ ~call.ok
                /\ call.step = "account_id"
                /\ call.err.kind = "NotOwner"
                /\ CONTEXT = None
                /\ "CONTEXT" \notin call.writes
        ELSE /\ call.err.kind # "NotOwner"
             /\ call.args.account_id = None => call.step # "account_id"

\* the bootstrap scenario: counter unset, not the owner, no identifier supplied
C9_Witness ==
    /\ IsCreateCall
    /\ committed.LOCAL_ACCOUNT_SEQUENCE = None
    /\ call.sender = "user"
    /\ call.args.account_id = None
    /\ call.err.kind = "NotOwner"
    /\ pc = "failed"

\* C10: a create_account that is given a local identifier, has resolved its
\* governance and for whose caller allocation yields an identifier: if the given
\* identifier differs from {counter or 0, Local} the call fails with the
\* identifier-mismatch error reporting the given and the actual identifier and
\* Context, counter and Configuration are as they were; if it is equal the
\* identifier step passes and a successful run carries the given identifier.
C10_SuppliedLocalIdMustMatch ==
    (/\ IsCreateCall
     /\ is_some(call.args.account_id)
     /\ is_local(unwrap(call.args.account_id))
     /\ GovernanceResolved
     /\ ~(Counter(committed.LOCAL_ACCOUNT_SEQUENCE) = ABSTRACT_ACCOUNT_ID_SEQ /\ call.sender # Owner)) =>
        LET actual == AccountId(Counter(committed.LOCAL_ACCOUNT_SEQUENCE), "Local") IN
        IF unwrap(call.args.account_id) # actual
        THEN /\ ~call.ok
             /\ call.err.kind = "ExpectedAccountIdFailed"
             /\ call.err.a = call.args.account_id
             /\ call.err.b = Some(actual)
             /\ call.writes = {}
             /\ CONTEXT = committed.CONTEXT
             /\ LOCAL_ACCOUNT_SEQUENCE = committed.LOCAL_ACCOUNT_SEQUENCE
             /\ CONFIG = committed.CONFIG
        ELSE /\ call.step # "account_id"
             /\ call.ok =>
                  /\ call.account_id = call.args.account_id
                  /\ unwrap(CONTEXT).account_id = actual
                  /\ \A k \in 1..Len(call.msgs) : call.msgs[k].msg.account_id = actual

\* the caller predicts {3, Local} while the next identifier is {1, Local}
C10_Witness ==
    /\ IsCreateCall
    /\ call.err.kind = "ExpectedAccountIdFailed"
    /\ call.err.a = Some(AccountId(3, "Local"))
    /\ call.err.b = Some(AccountId(1, "Local"))
    /\ pc = "failed"

\* the call is given a remote-origin identifier
GivenRemoteId == is_some(call.args.account_id) /\ ~is_local(unwrap(call.args.account_id))

\* C11: a create_account that is given a remote-origin identifier and has
\* resolved its governance fails when no gateway is configured, fails with the
\* gateway authorization error (naming caller and gateway) for a caller other
\* than the gateway, and fails with the trace error for a malformed trace from
\* the gateway; otherwise the identifier step passes, a successful run carries
\* the given identifier and the counter is as stored; and a validator run that
\* confirms a remote-origin identifier leaves the counter unchanged.
C11_RemoteIdNeedsGateway ==
    /\ []((IsCreateCall /\ GivenRemoteId /\ GovernanceResolved) =>
            IF CONFIG.ibc_host = None
            THEN ~call.ok /\ call.step = "account_id" /\ call.err.kind = "IbcHostNotSet"
            ELSE IF call.sender # unwrap(CONFIG.ibc_host)
            THEN /\ ~call.ok
                 /\ call.step = "account_id"
                 /\ call.err.kind = "SenderNotIbcHost"
                 /\ call.err.a = Some(call.sender)
                 /\ call.err.b = CONFIG.ibc_host
            ELSE IF ~verify_remote(unwrap(call.args.account_id).trace)
            THEN ~call.ok /\ call.step = "account_id" /\ call.err.kind = "TraceVerify"
            ELSE /\ call.step # "account_id"
                 /\ LOCAL_ACCOUNT_SEQUENCE = committed.LOCAL_ACCOUNT_SEQUENCE
                 /\ call.ok =>
                      /\ call.account_id = call.args.account_id
                      /\ unwrap(CONTEXT).account_id = unwrap(call.args.account_id))
    /\ [][(pc = "reply" /\ pc' = "succeeded" /\ CONTEXT # None
           /\ ~is_local(unwrap(CONTEXT).account_id)) =>
            /\ LOCAL_ACCOUNT_SEQUENCE' = LOCAL_ACCOUNT_SEQUENCE
            /\ LOCAL_ACCOUNT_SEQUENCE' = committed.LOCAL_ACCOUNT_SEQUENCE]_vars

\* the gateway's remote creation is confirmed with the counter still at 1
C11_Witness ==
    /\ pc = "succeeded"
    /\ IsValidatorCall
    /\ confirming = <<AccountId(7, "Remote")>>
    /\ committed.LOCAL_ACCOUNT_SEQUENCE = Some(1)
    /\ LOCAL_ACCOUNT_SEQUENCE = Some(1)

\* C12: a create_account whose verified governance makes the account a
\* sub-account of a manager other than the caller fails at the governance step
\* with the error naming the caller and that manager, before an identifier is
\* allocated or a Context written; from the manager itself the governance step
\* passes.
C12_SubAccountNeedsManager ==
    (IsCreateCall /\ call.q.governance_ok /\ call.args.governance.type = "SubAccount") =>
        IF call.sender # call.args.governance.manager
        THEN /\ ~call.ok
             /\ call.step = "governance"
             /\ call.err.kind = "SubAccountCreatorNotManager"
             /\ call.err.a = Some(call.sender)
             /\ call.err.b = Some(call.args.governance.manager)
             /\ call.account_id = None
             /\ call.writes = {}
             /\ CONTEXT = None
             /\ LOCAL_ACCOUNT_SEQUENCE = committed.LOCAL_ACCOUNT_SEQUENCE
        ELSE call.step # "governance"

\* the owner asks for a sub-account of the manager "user"
C12_Witness ==
    /\ IsCreateCall
    /\ call.sender = Owner
    /\ call.args.governance.type = "SubAccount"
    /\ call.err.kind = "SubAccountCreatorNotManager"
    /\ pc = "failed"

\* C13: when the validator confirms a creation run, the controller and proxy
\* addresses of its event are instantiate2_address(checksum of the resolved
\* module's code, factory address, salt of the confirmed identifier); they are
\* the addresses of the consumed Context, of the registered AccountBase, of the
\* proxy's admin and manager_addr and the controller's admin and proxy_addr, and
\* the addresses at which the two Instantiate2 operations, using these code ids
\* and this salt, created the contracts.
C13_AddressesAsPredicted ==
    (IsValidatorCall /\ call.ok /\ executed # <<>>) =>
        LET ev == unwrap(call.event)
            ctx == unwrap(call.context)
            salt == generate_instantiate_salt(ev.account)
            proxy_code == ctx.proxy_module.reference.code_id
            manager_code == ctx.manager_module.reference.code_id
            reg == RegisterMsgs(executed)
            prx == ProxyMsgs(executed)
            mgr == ManagerMsgs(executed)
        IN
        /\ ev.account = ctx.account_id
        /\ ev.proxy_address = instantiate2_address(Checksum(proxy_code), FactoryAddr, salt)
        /\ ev.manager_address = instantiate2_address(Checksum(manager_code), FactoryAddr, salt)
        /\ ctx.account_base = [manager |-> ev.manager_address, proxy |-> ev.proxy_address]
        /\ Len(reg) = 1 /\ Len(prx) = 1 /\ Len(mgr) = 1
        /\ reg[1].msg.account_id = ev.account
        /\ reg[1].msg.account_base = ctx.account_base
        /\ prx[1].code_id = Some(proxy_code)
        /\ prx[1].salt = Some(salt)
        /\ prx[1].admin = Some(ev.manager_address)
        /\ prx[1].msg.manager_addr = ev.manager_address
        /\ TargetAddr(prx[1]) = ev.proxy_address
        /\ mgr[1].code_id = Some(manager_code)
        /\ mgr[1].salt = Some(salt)
        /\ mgr[1].admin = Some(ev.manager_address)
        /\ mgr[1].msg.proxy_addr = ev.proxy_address
        /\ TargetAddr(mgr[1]) = ev.manager_address
        /\ {ev.proxy_address, ev.manager_address} \subseteq contracts

\* a confirmed remote creation whose proxy is of the newer code
C13_Witness ==
    /\ IsValidatorCall
    /\ call.ok
    /\ executed # <<>>
    /\ unwrap(call.event).account = AccountId(7, "Remote")
    /\ unwrap(call.context).proxy_module.reference.code_id = 3
    /\ unwrap(call.event).proxy_address # unwrap(call.event).manager_address

\* C14: when the fund partition fails, the fee-mismatch error reports, on
\* every denomination, the installation cost plus the namespace cost (when a
\* namespace is requested) as expected, and the caller's funds as sent.
C14_FeeErrorReportsExpectedTotal ==
    (IsCreateCall /\ call.err.kind = "Fee") =>
        /\ \A x \in Denoms :
              VecAmount(unwrap(call.err.a), x) = InstallCost(x) + NamespaceCost(x)
        /\ call.err.b = Some(call.args.funds)

\* C15: when a resolved module is not of the account-base kind, the
\* wrong-module-kind error names the module that is of the wrong kind (the
\* controller's identifier when the controller is, the proxy's when the proxy
\* is) and the expected kind.
C15_WrongModuleKindNamesOffender ==
    (IsCreateCall /\ call.err.kind = "WrongModuleKind") =>
        LET proxy_module == call.q.proxy_modules.modules[1]
            manager_module == call.q.manager_modules.modules[1]
            offenders == {m \in {proxy_module, manager_module} : m.reference.kind # "AccountBase"}
        IN /\ call.err.a \in {Some(m.info) : m \in offenders}
           /\ call.err.b = Some("account_base")

IsConfigCall == call.entry = "update_config"
SuppliedFields == {f \in DOMAIN call.args : is_some(call.args[f])}
MalformedFields == {f \in SuppliedFields : ~addr_validate(unwrap(call.args[f]))}

\* C16: update_config succeeds only for the owner, and any other caller gets
\* an authorization error with the Configuration unchanged; on success each
\* supplied address replaces its field and every omitted field keeps its
\* previous value; if any supplied address fails validation the call fails
\* and no field is changed, including fields supplied earlier in the call.
C16_UpdateConfigAllOrNothing ==
    IsConfigCall =>
        /\ call.ok => call.sender = Owner
        /\ call.sender # Owner =>
              /\ ~call.ok
              /\ call.err.kind = "NotOwner"
        /\ MalformedFields # {} => ~call.ok
        /\ ~call.ok => CONFIG = committed.CONFIG
        /\ call.ok =>
              \A f \in DOMAIN CONFIG :
                 IF f \in SuppliedFields
                 THEN CONFIG[f] = (IF f = "ibc_host" THEN call.args[f] ELSE unwrap(call.args[f]))
                 ELSE CONFIG[f] = committed.CONFIG[f]

\* the owner supplies a valid address for an earlier field and a malformed
\* one for a later field
C16_Witness ==
    /\ IsConfigCall
    /\ call.sender = Owner
    /\ call.args.ans_host_contract = Some("host2")
    /\ call.args.ibc_host = Some("")
    /\ ~call.ok
    /\ committed.CONFIG.ans_host_contract = "ans"
    /\ CONFIG = committed.CONFIG

\* the validator runs on the Context of a local identifier whose sequence is
\* the maximum, with both contracts valid
ConfirmsAtMaximum ==
    /\ IsValidatorCall
    /\ is_some(call.context)
    /\ is_local(unwrap(call.context).account_id)
    /\ unwrap(call.context).account_id.seq = U32_MAX
    /\ call.err.kind # "ModuleValidity"

\* C17: the increment of the counter is checked: confirming a local
\* identifier whose sequence is the maximum representable value aborts the
\* transaction and leaves the persisted counter unchanged; the counter never
\* moves to a smaller value, neither inside a transaction nor at a boundary.
C17_CheckedIncrement ==
    /\ [](ConfirmsAtMaximum =>
            /\ ~call.ok
            /\ call.err.kind = "panic"
            /\ pc = "failed"
            /\ LOCAL_ACCOUNT_SEQUENCE = call.sequence
            /\ committed.LOCAL_ACCOUNT_SEQUENCE = call.sequence)
    /\ [](Counter(LOCAL_ACCOUNT_SEQUENCE) >= Counter(committed.LOCAL_ACCOUNT_SEQUENCE))
    /\ [][Counter(committed.LOCAL_ACCOUNT_SEQUENCE') >= Counter(committed.LOCAL_ACCOUNT_SEQUENCE)]_vars

\* the counter stands at the maximum and a confirmation of the identifier
\* allocated from it fails
C17_Witness ==
    /\ ConfirmsAtMaximum
    /\ call.sequence = Some(U32_MAX)
    /\ call.err.kind = "panic"
    /\ pc = "failed"

\* C18: each entry point writes only its own part of the storage:
\* create_account nothing but the Context, the validator nothing but the
\* Context (which it deletes) and the counter, update_config nothing but the
\* Configuration; so the counter changes only in a step of the validator and
\* the Configuration only in an update_config of the owner (a rollback
\* restores the counter of the last boundary).
C18_EntryPointsWriteOwnState ==
    /\ [](/\ IsCreateCall => call.writes \subseteq {"CONTEXT"}
          /\ IsValidatorCall =>
                /\ call.writes \subseteq {"CONTEXT", "LOCAL_ACCOUNT_SEQUENCE"}
                /\ "CONTEXT" \in call.writes => CONTEXT = None
          /\ IsConfigCall =>
                /\ call.writes \subseteq {"CONFIG"}
                /\ "CONFIG" \in call.writes => call.sender = Owner)
    /\ [][/\ LOCAL_ACCOUNT_SEQUENCE' # LOCAL_ACCOUNT_SEQUENCE =>
                \/ /\ pc \in {"reply", "idle"}
                   /\ call'.entry = "validate_instantiated_account"
                \/ /\ pc = "failed"
                   /\ LOCAL_ACCOUNT_SEQUENCE' = committed.LOCAL_ACCOUNT_SEQUENCE
          /\ CONFIG' # CONFIG =>
                /\ pc = "idle"
                /\ call'.entry = "update_config"
                /\ call'.sender = Owner
                /\ call'.ok]_vars

\* the validator of a second creation deleted the Context and advanced the
\* counter
C18_Witness ==
    /\ IsValidatorCall
    /\ call.writes = {"CONTEXT", "LOCAL_ACCOUNT_SEQUENCE"}
    /\ is_some(call.context)
    /\ committed.LOCAL_ACCOUNT_SEQUENCE = Some(1)
    /\ LOCAL_ACCOUNT_SEQUENCE = Some(2)

\* the Context is the one written by the run that emitted message m
ContextOfRun(context, m) ==
    /\ IsManagerInstantiate(m)
    /\ context.account_id = m.msg.account_id
    /\ context.account_base.manager = TargetAddr(m)
    /\ context.account_base.proxy = m.msg.proxy_addr

\* C19: every successful run of the validator consumes the Context written by
\* the create_account whose controller instantiation triggered it, also when
\* create_account is called again inside the transaction while a run is
\* suspended; a validator that finds no Context fails, and a failure of the
\* outermost run drops every write of the transaction, the confirmations of
\* nested runs included.
C19_ContextBelongsToItsRun ==
    /\ []((IsValidatorCall /\ call.ok) =>
            /\ is_some(call.trigger)
            /\ ContextOfRun(unwrap(call.context), unwrap(call.trigger))
            /\ call.account_id = Some(unwrap(call.trigger).msg.account_id))
    /\ []((IsValidatorCall /\ call.context = None) =>
            /\ ~call.ok
            /\ call.err.kind = "ContextNotFound"
            /\ pc = "failed")
    /\ [][(pc = "failed" /\ stack = <<>>) =>
            /\ pc' = "idle"
            /\ confirmed' = confirmed
            /\ committed' = committed
            /\ Snapshot(CONFIG', LOCAL_ACCOUNT_SEQUENCE', CONTEXT', registry', contracts')
                 = committed]_vars

\* a nested creation was confirmed while the outer run's controller was being
\* instantiated, and the outer run's validator then found no Context
C19_Witness ==
    /\ IsValidatorCall
    /\ stack = <<>>
    /\ call.context = None
    /\ is_some(call.trigger)
    /\ IsManagerInstantiate(unwrap(call.trigger))
    /\ unwrap(call.trigger).msg.account_id = AccountId(0, "Local")
    /\ confirming = <<AccountId(7, "Remote")>>
    /\ pc = "failed"

\* the errors create_account returns as values of its error type
TypedErrors ==
    {"GovernanceVerify", "SubAccountCreatorNotManager", "NotOwner", "ExpectedAccountIdFailed",
     "IbcHostNotSet", "SenderNotIbcHost", "TraceVerify", "ModuleQuery", "Query", "Fee",
     "WrongModuleKind"}

\* C20: every failing create_account fails with a typed error: no request
\* makes it abort through a panic, neither a deposit that lists a
\* denomination twice nor an empty module list answered by the registry.
C20_FailuresAreTyped ==
    (IsCreateCall /\ ~call.ok) => call.err.kind \in TypedErrors

====
